---- MODULE Spec2Model ----
(***************************************************************************)
(* State-machine model of src/src/freenect.rs: one FreenectContext, the    *)
(* background threads it spawns, one FreenectDevice with its two sender    *)
(* slots, the depth and video streams, and the callback bridge.            *)
(*                                                                         *)
(* FreenectContext holds a RefCell and FreenectDevice holds raw pointers   *)
(* and a &FreenectContext, so neither is Sync: every operation of the      *)
(* public API runs on one application thread (variable app is its          *)
(* position).  The only other threads are the ones spawn_process_thread    *)
(* starts; the native callbacks run on them, inside                        *)
(* freenect_process_events.  The native library dispatches the callbacks   *)
(* of one context one at a time (it handles events under the event lock of *)
(* its USB layer), so at most one callback is in flight.                   *)
(***************************************************************************)
EXTENDS Integers, Sequences, FiniteSets, Bags, TLC

\* ---------------------------------------------------------------- bounds
\* number of background threads that exist at the same time
MaxThreads == 2
\* number of frames the driver delivers, both kinds together
MaxTs == 3
\* largest device count / device index tried
MaxDevices == 1

\* largest tilt angle tried, in degrees, either way; the code knows no range
MaxAngle == 2

\* capacity given to sync_channel
ChannelCap == 2

Kinds == {"depth", "video"}

\* results freenect_process_events may return: >= 0, the negative
\* LIBUSB_ERROR_INTERRUPTED, any other negative value
PumpResults == {"ok", "interrupted", "error"}

VARIABLES
  ctx,            \* FreenectContext.ctx, the native context handle: "live" or "released"
  use_video,      \* FreenectContext.use_video
  drop_sender,    \* FreenectContext.drop_sender is Some: the Sender of the stop channel of
                  \* the thread spawned last
  thread_joiner,  \* FreenectContext.thread_joiner is Some: the JoinHandle of that thread
  cur,            \* position of the thread spawned last, while its JoinHandle is held:
                  \* "none", "poll", "pump", "cb", "exited", "panicked"
  detached,       \* bag of the running threads whose Sender and JoinHandle were
                  \* overwritten: [cur |-> FALSE, pc, probes], probes the () messages
                  \* queued in the thread's stop channel
  cbKind,         \* kind of the callback in flight ("none" when there is none, "stale"
                  \* when its FreenectDevice was dropped meanwhile)
  cbTs,           \* timestamp argument of the callback in flight
  dev,            \* "none" or "open": the FreenectDevice
  user,           \* native user pointer of the device is set (freenect_set_user)
  slot,           \* per kind: depth_sender / video_sender: 0 = None, c = Some(sender of channel c)
  lockHeld,       \* per kind: the slot mutex is held by the application thread
  poisoned,       \* per kind: the slot mutex is poisoned
  started,        \* per kind: native streaming is on
  streamSt,       \* per kind: "none", "live", "stopping" (drop running), "cleared" (drop body done)
  rx,             \* per kind: channel whose Receiver the Stream holds, 0 = none
  chan,           \* per kind: frames (timestamps) buffered in that channel
  ts,             \* per kind: last timestamp the driver issued
  produced,       \* per kind: timestamps the bridge tried to send on the current channel
  got,            \* per kind: timestamps the consumer received from the current channel
  dropped,        \* per kind: some frame met a full channel
  app,            \* position of the application thread
  appKind,        \* kind of the stream operation in progress
  ret,            \* what the application operation completed by the last step returned,
                  \* "none" when the last step completed none
  tilt,           \* native layer: the tilt angle it was last given (it echoes it)
  tiltState,      \* native layer: the tilt state freenect_update_tilt_state refreshes
  asked,          \* <<x>> for the angle x of the last set_tilt_degree that succeeded
  degree,         \* <<x>> for the angle x the last control operation returned
  calls,          \* the native calls the last control operation issued, in order
  panic,          \* cause of the panic the last step raised, "none" if it raised none
  aborted         \* the process was aborted, or the application thread panicked

vars == <<ctx, use_video, drop_sender, thread_joiner, cur, detached, cbKind, cbTs, dev,
          user, slot, lockHeld, poisoned, started, streamSt, rx, chan,
          ts, produced, got, dropped, app, appKind, ret, tilt, tiltState, asked,
          degree, calls, panic, aborted>>

ctxVars == <<ctx, use_video, drop_sender, thread_joiner>>
thrVars == <<cur, detached, cbKind, cbTs>>
devVars == <<dev, user, slot, lockHeld, poisoned, started>>
strVars == <<streamSt, rx, chan>>
histVars == <<ts, produced, got, dropped>>
appVars == <<app, appKind>>
natVars == <<tilt, tiltState, asked, degree, calls>>

Init ==
  /\ ctx = "live"
  /\ use_video \in BOOLEAN
  /\ drop_sender = FALSE
  /\ thread_joiner = FALSE
  /\ cur = "none"
  /\ detached = EmptyBag
  /\ cbKind = "none"
  /\ cbTs = 0
  /\ dev = "none"
  /\ user = FALSE
  /\ slot = [k \in Kinds |-> 0]
  /\ lockHeld = [k \in Kinds |-> FALSE]
  /\ poisoned = [k \in Kinds |-> FALSE]
  /\ started = [k \in Kinds |-> FALSE]
  /\ streamSt = [k \in Kinds |-> "none"]
  /\ rx = [k \in Kinds |-> 0]
  /\ chan = [k \in Kinds |-> <<>>]
  /\ ts = [k \in Kinds |-> 0]
  /\ produced = [k \in Kinds |-> <<>>]
  /\ got = [k \in Kinds |-> <<>>]
  /\ dropped = [k \in Kinds |-> FALSE]
  /\ app = "idle"
  /\ appKind = "none"
  /\ ret = "none"
  /\ tilt = 0
  /\ tiltState = 0
  /\ asked = <<>>
  /\ degree = <<>>
  /\ calls = <<>>
  /\ panic = "none"
  /\ aborted = FALSE

\* ------------------------------------------------------------- Context

RunningPc == {"poll", "pump", "cb"}

\* the thread spawned last, as a thread record; it has no probe queued, a
\* probe being sent only by the spawn that overwrites its Sender
CurThread == [cur |-> TRUE, pc |-> cur, probes |-> 0]

\* the background threads whose closure has not returned
RunningThreads ==
  (IF cur \in RunningPc THEN {CurThread} ELSE {}) \cup BagToSet(detached)

\* how many of them there are
NumRunning == (IF cur \in RunningPc THEN 1 ELSE 0) + BagCardinality(detached)

\* thread th moves to position p with n probes queued
ThreadMoves(th, p, n) ==
  IF th.cur
  THEN /\ cur' = p
       /\ detached' = detached
  ELSE /\ cur' = cur
       /\ detached' = (detached (-) SetToBag({th}))
                      (+) SetToBag({[cur |-> FALSE, pc |-> p, probes |-> n]})

\* the closure of thread th returns (how = "exited") or unwinds (how =
\* "panicked"): the Receiver of its stop channel is dropped; the thread is
\* kept only while its JoinHandle is held
ThreadEnds(th, how) ==
  IF th.cur
  THEN /\ cur' = how
       /\ detached' = detached
  ELSE /\ cur' = cur
       /\ detached' = detached (-) SetToBag({th})

\* the step completes no application operation
NoReturn == ret' = "none"

\* the step raises no panic
NoPanic == panic' = "none"

\* the probe `sender.send(())` in spawn_process_thread: Ok while the
\* Receiver, which lives in the closure of the thread spawned last, is alive
ProbeOk == cur \in RunningPc

\* FreenectContext::spawn_process_thread
SpawnProcessThread ==
  /\ app = "idle" /\ ~aborted
  /\ ctx = "live"
  /\ IF drop_sender /\ ~ProbeOk
     THEN \* send failed: the error return
          /\ ret' = "AlreadyRunning"
          /\ UNCHANGED <<drop_sender, thread_joiner, cur, detached>>
     ELSE /\ NumRunning < MaxThreads
          /\ detached' = IF drop_sender
                         THEN detached (+) SetToBag({[cur |-> FALSE, pc |-> cur, probes |-> 1]})
                         ELSE detached
          /\ drop_sender' = TRUE
          /\ thread_joiner' = TRUE
          /\ cur' = "poll"
          /\ ret' = "Ok"
  /\ UNCHANGED <<ctx, use_video, natVars, cbKind, cbTs, devVars, strVars, histVars, appVars, aborted>>
  /\ NoPanic

\* a stop channel that never reports Disconnected
StopSenderAliveAlways(th) == TRUE

\* the Sender of the stop channel of thread th is alive
StopSenderAlive(th) == th.cur /\ drop_sender

\* the loop head of the spawned closure: r.try_recv()
PollStop(th) ==
  /\ th.pc = "poll" /\ ~aborted
  /\ IF th.probes > 0 THEN ThreadMoves(th, "pump", th.probes - 1)
     ELSE IF StopSenderAlive(th) THEN ThreadMoves(th, "pump", 0)
     ELSE ThreadEnds(th, "exited")
  /\ NoReturn
  /\ UNCHANGED <<ctxVars, natVars, cbKind, cbTs, devVars, strVars, histVars, appVars, aborted>>
  /\ NoPanic

\* a loop that goes on whatever freenect_process_events returns
PumpExitsNever(r) == FALSE

\* the loop's test of the result of freenect_process_events
PumpExits(r) == r # "ok"

\* freenect_process_events returns r
PumpReturn(th, r) ==
  /\ th.pc = "pump" /\ ~aborted
  /\ IF PumpExits(r) THEN ThreadEnds(th, "exited")
     ELSE ThreadMoves(th, "poll", th.probes)
  /\ NoReturn
  /\ UNCHANGED <<ctxVars, natVars, cbKind, cbTs, devVars, strVars, histVars, appVars, aborted>>
  /\ NoPanic

\* the test `if let Some(joiner) = self.thread_joiner.borrow_mut().take()`
\* with nothing to join taken for a handle
HasJoinerAlways == TRUE

\* the test `if let Some(joiner) = self.thread_joiner.borrow_mut().take()`
HasJoiner == thread_joiner

\* a stop that leaves the stop sender where it is
SenderAfterStopKept == drop_sender

\* what `drop_sender.take()` leaves in the Context: None
SenderAfterStop == FALSE

\* FreenectContext::stop_process_thread up to the join; without a JoinHandle
\* it returns Ok(()) at once ("No Thread started")
StopProcessThread ==
  /\ app = "idle" /\ ~aborted
  /\ ctx = "live"
  /\ drop_sender' = SenderAfterStop
  /\ thread_joiner' = FALSE
  /\ IF ~HasJoiner
     THEN /\ ret' = "OkNoThread"
          /\ UNCHANGED app
     ELSE /\ app' = "joining"
          /\ NoReturn
  /\ UNCHANGED <<ctx, use_video, natVars, thrVars, devVars, strVars, histVars, appKind,
                 aborted>>
  /\ NoPanic

\* joiner.join() returns, in a call of stop_process_thread by the application
JoinReturns ==
  /\ app = "joining" /\ ~aborted
  /\ cur \in {"exited", "panicked"}
  /\ ret' = IF cur = "exited" THEN "Ok" ELSE "JoinError"
  /\ cur' = "none"
  /\ app' = "idle"
  /\ UNCHANGED <<ctxVars, natVars, detached, cbKind, cbTs, devVars, strVars, histVars, appKind, aborted>>
  /\ NoPanic

\* Drop for FreenectContext up to the join of stop_process_thread; without a
\* JoinHandle stop_process_thread returns Ok(()) and freenect_shutdown
\* follows at once.  A Device borrows the Context (FreenectDevice.ctx), so
\* the Context is dropped only when no Device exists.
DropContext ==
  /\ app = "idle" /\ ~aborted
  /\ ctx = "live"
  /\ dev = "none"
  /\ drop_sender' = FALSE
  /\ thread_joiner' = FALSE
  /\ IF ~HasJoiner
     THEN /\ ctx' = "released"
          /\ ret' = "Dropped"
          /\ UNCHANGED app
     ELSE /\ app' = "ctx_joining"
          /\ NoReturn
          /\ UNCHANGED ctx
  /\ UNCHANGED <<use_video, natVars, thrVars, devVars, strVars, histVars, appKind, aborted>>
  /\ NoPanic

\* joiner.join() returns in Drop for FreenectContext: `.unwrap()` panics on
\* the Err of a panicked thread, otherwise freenect_shutdown is called
DropContextJoined ==
  /\ app = "ctx_joining" /\ ~aborted
  /\ cur \in {"exited", "panicked"}
  /\ cur' = "none"
  /\ IF cur = "exited"
     THEN /\ ctx' = "released"
          /\ ret' = "Dropped"
          /\ app' = "idle"
          /\ UNCHANGED aborted
          /\ NoPanic
     ELSE /\ panic' = "join_unwrap"
          /\ aborted' = TRUE
          /\ NoReturn
          /\ UNCHANGED <<ctx, app>>
  /\ UNCHANGED <<use_video, natVars, drop_sender, thread_joiner, detached, cbKind, cbTs, devVars,
                 strVars, histVars, appKind>>

\* the test `nr >= self.num_devices()?` with the bound ignored
IndexOutOfRangeNever(nr, n) == FALSE

\* the test `nr >= self.num_devices()?` on an enumeration that returned n >= 0
IndexOutOfRange(nr, n) == nr >= n

\* FreenectContext::open_device(nr) up to the native open call, the native
\* enumeration returning n
OpenDevice(nr, n) ==
  /\ app = "idle" /\ ~aborted
  /\ ctx = "live"
  /\ dev = "none"
  /\ IF n < 0 THEN ret' = "DriverQueryError" /\ app' = app
     ELSE IF IndexOutOfRange(nr, n) THEN ret' = "DeviceNotFound" /\ app' = app
     ELSE NoReturn /\ app' = "dev_opening"
  /\ UNCHANGED <<ctxVars, natVars, thrVars, devVars, strVars, histVars, appKind, aborted>>
  /\ NoPanic

\* freenect_open_device succeeding or not, and on success FreenectDevice::new:
\* two new slot mutexes holding None around a native handle without user
\* pointer
NativeOpen(ok) ==
  /\ app = "dev_opening" /\ ~aborted
  /\ app' = "idle"
  /\ IF ~ok
     THEN /\ ret' = "DriverOpenError"
          /\ UNCHANGED <<dev, user, slot, poisoned>>
     ELSE /\ ret' = "Ok"
          /\ dev' = "open"
          /\ user' = FALSE
          /\ slot' = [k \in Kinds |-> 0]
          /\ poisoned' = [k \in Kinds |-> FALSE]
  /\ UNCHANGED <<ctxVars, natVars, thrVars, lockHeld, started, strVars, histVars, appKind,
                 aborted>>
  /\ NoPanic

\* Drop for FreenectDevice: freenect_close_device, then the fields (the two
\* slot mutexes) are dropped.  A Stream borrows the Device (its field
\* parent), so the Device is dropped only when no Stream exists.
DropDevice ==
  /\ app = "idle" /\ ~aborted
  /\ dev = "open"
  /\ \A k \in Kinds : streamSt[k] = "none"
  /\ dev' = "none"
  /\ user' = FALSE
  /\ slot' = [k \in Kinds |-> 0]
  /\ poisoned' = [k \in Kinds |-> FALSE]
  /\ cbKind' = IF cbKind = "none" THEN "none" ELSE "stale"
  /\ ret' = "Dropped"
  /\ UNCHANGED <<ctxVars, natVars, cur, detached, cbTs, lockHeld, started, strVars, histVars,
                 appVars, aborted>>
  /\ NoPanic

\* -------------------------------------------------------------- Device

\* `lock().unwrap()` on a poisoned slot mutex, on the application thread
AppPanics ==
  /\ panic' = "app_poisoned"
  /\ aborted' = TRUE

\* a Stream object of kind k exists and the body of its Drop has not finished
StreamLive(k) == streamSt[k] \in {"live", "stopping"}

\* video_stream without the test of use_video
UnsupportedNever(k) == FALSE

\* the test `!self.use_video`, made by video_stream only
Unsupported(k) == k = "video" /\ ~use_video

\* an open that does not look at the slot
SlotTakenNever(k) == FALSE

\* the test `d_sender.is_some()` / `v_sender.is_some()`
SlotTaken(k) == slot[k] # 0

\* FreenectDevice::depth_stream / video_stream up to the call of
\* FreenectDepthStream::new / FreenectVideoStream::new: set the user pointer,
\* (video) test use_video, lock the slot, test is_some
OpenBegin(k) ==
  /\ app = "idle" /\ ~aborted
  /\ dev = "open"
  /\ user' = TRUE
  /\ IF Unsupported(k)
     THEN /\ ret' = "VideoUnsupported"
          /\ UNCHANGED <<lockHeld, app, appKind, aborted>>
          /\ NoPanic
     ELSE IF poisoned[k]
     THEN /\ AppPanics
          /\ NoReturn
          /\ UNCHANGED <<lockHeld, app, appKind>>
     ELSE IF SlotTaken(k)
     THEN /\ ret' = "StreamAlreadyOpen"
          /\ UNCHANGED <<lockHeld, app, appKind, aborted>>
          /\ NoPanic
     ELSE /\ lockHeld' = [lockHeld EXCEPT ![k] = TRUE]
          /\ app' = "open_locked"
          /\ appKind' = k
          /\ NoReturn
          /\ UNCHANGED aborted
          /\ NoPanic
  /\ UNCHANGED <<ctxVars, natVars, thrVars, dev, slot, poisoned, started, strVars, histVars>>

\* an open that returns the start error with the slot lock still taken
LockedAfterStartErrorKept == TRUE

\* the slot lock after `new(self)?` returned the start error: the guard
\* d_sender / v_sender is dropped with the frame of depth_stream / video_stream
LockedAfterStartError == FALSE

\* FreenectDepthStream::new / FreenectVideoStream::new: the native start
\* call, succeeding or not, made while the slot lock is held
OpenStart(ok) ==
  /\ app = "open_locked" /\ ~aborted
  /\ IF ok
     THEN /\ started' = [started EXCEPT ![appKind] = TRUE]
          /\ app' = "open_started"
          /\ NoReturn
          /\ UNCHANGED <<lockHeld, appKind>>
     ELSE /\ ret' = "StreamStartError"
          /\ lockHeld' = [lockHeld EXCEPT ![appKind] = LockedAfterStartError]
          /\ app' = "idle"
          /\ appKind' = "none"
          /\ started' = started
  /\ UNCHANGED <<ctxVars, natVars, thrVars, dev, user, slot, poisoned, strVars, histVars, aborted>>
  /\ NoPanic

\* the channel sync_channel(2) creates: one that neither the slot nor a
\* Stream of the kind refers to
NewChannel(k) == CHOOSE c \in 1..3 : c \notin {slot[k], rx[k]} /\ \A d \in 1..(c - 1) : d \in {slot[k], rx[k]}

\* the rest of new() and of depth_stream / video_stream: sync_channel(2),
\* the Stream around the receiver, the sender into the slot, the lock released
OpenInstall ==
  /\ app = "open_started" /\ ~aborted
  /\ LET k == appKind
         c == NewChannel(k)
     IN /\ rx' = [rx EXCEPT ![k] = c]
        /\ chan' = [chan EXCEPT ![k] = <<>>]
        /\ slot' = [slot EXCEPT ![k] = c]
        /\ streamSt' = [streamSt EXCEPT ![k] = "live"]
        /\ lockHeld' = [lockHeld EXCEPT ![k] = FALSE]
        /\ produced' = [produced EXCEPT ![k] = <<>>]
        /\ got' = [got EXCEPT ![k] = <<>>]
        /\ dropped' = [dropped EXCEPT ![k] = FALSE]
  /\ ret' = "Ok"
  /\ app' = "idle"
  /\ appKind' = "none"
  /\ UNCHANGED <<ctxVars, natVars, thrVars, dev, user, poisoned, started, ts, aborted>>
  /\ NoPanic

\* Drop for FreenectDepthStream / FreenectVideoStream, first statement: the
\* native stop call
DropBegin(k) ==
  /\ app = "idle" /\ ~aborted
  /\ streamSt[k] = "live"
  /\ started' = [started EXCEPT ![k] = FALSE]
  /\ streamSt' = [streamSt EXCEPT ![k] = "stopping"]
  /\ app' = "drop_stopped"
  /\ appKind' = k
  /\ NoReturn
  /\ UNCHANGED <<ctxVars, natVars, thrVars, dev, user, slot, lockHeld, poisoned, rx, chan,
                 histVars, aborted>>
  /\ NoPanic

\* Drop leaving the sender in the slot
SlotAfterDropKept(k) == slot[k]

\* what Drop stores in the slot
SlotAfterDrop(k) == 0

\* a Drop for the video Stream that clears the depth slot
SlotOfStreamDepth(k) == "depth"

\* the slot the Drop of the Stream of kind k clears: depth_sender for the
\* depth Stream, video_sender for the video Stream
SlotOfStream(k) == k

\* Drop, second statement: lock the slot and store None
DropClear ==
  /\ app = "drop_stopped" /\ ~aborted
  /\ IF poisoned[appKind]
     THEN /\ AppPanics
          /\ UNCHANGED <<slot, streamSt, app>>
     ELSE /\ slot' = [slot EXCEPT ![SlotOfStream(appKind)] = SlotAfterDrop(appKind)]
          /\ streamSt' = [streamSt EXCEPT ![appKind] = "cleared"]
          /\ app' = "drop_cleared"
          /\ UNCHANGED aborted
          /\ NoPanic
  /\ UNCHANGED <<ctxVars, natVars, thrVars, dev, user, lockHeld, poisoned, started, rx, chan, histVars, appKind>>
  /\ NoReturn

\* after the body of Drop: the fields of the Stream are dropped, the
\* Receiver (and the frames still buffered) with them
DropFields ==
  /\ app = "drop_cleared" /\ ~aborted
  /\ rx' = [rx EXCEPT ![appKind] = 0]
  /\ chan' = [chan EXCEPT ![appKind] = <<>>]
  /\ streamSt' = [streamSt EXCEPT ![appKind] = "none"]
  /\ produced' = [produced EXCEPT ![appKind] = <<>>]
  /\ got' = [got EXCEPT ![appKind] = <<>>]
  /\ dropped' = [dropped EXCEPT ![appKind] = FALSE]
  /\ app' = "idle"
  /\ appKind' = "none"
  /\ ret' = "Dropped"
  /\ UNCHANGED <<ctxVars, natVars, thrVars, devVars, ts, aborted>>
  /\ NoPanic

\* ----------------------------------------------------- Callback bridge

\* the native library, inside freenect_process_events on thread th, calls
\* depth_callback / video_callback with the next timestamp
CallbackBegin(th, k) ==
  /\ th.pc = "pump" /\ ~aborted
  /\ cbKind = "none"
  /\ started[k] /\ user
  /\ ts["depth"] + ts["video"] < MaxTs
  /\ ts' = [ts EXCEPT ![k] = @ + 1]
  /\ cbKind' = k
  /\ cbTs' = ts[k] + 1
  /\ ThreadMoves(th, "cb", th.probes)
  /\ NoReturn
  /\ UNCHANGED <<ctxVars, natVars, devVars, strVars, produced, got, dropped, appVars, aborted>>
  /\ NoPanic

\* a send that ignores the capacity
TrySendUnbounded(q, x) == Append(q, x)

\* a send that makes room by discarding the oldest frame
TrySendOverwrite(q, x) == IF Len(q) < ChannelCap THEN Append(q, x) ELSE Append(Tail(q), x)

\* a send that queues at the front
TrySendFront(q, x) == IF Len(q) < ChannelCap THEN <<x>> \o q ELSE q

\* SyncSender::try_send on a connected channel holding q: the buffer after it
TrySend(q, x) == IF Len(q) < ChannelCap THEN Append(q, x) ELSE q

\* a panic inside the extern "C" callback on thread th while it holds (or
\* takes) the slot lock of kind k: the process aborts, or the thread
\* unwinds and the mutex is poisoned
CallbackPanics(th, k, why) ==
  /\ panic' = why
  /\ \/ /\ aborted' = TRUE
        /\ UNCHANGED <<cur, detached, poisoned, cbKind, cbTs>>
     \/ /\ aborted' = aborted
        /\ ThreadEnds(th, "panicked")
        /\ poisoned' = [poisoned EXCEPT ![k] = TRUE]
        /\ cbKind' = "none"
        /\ cbTs' = 0
  /\ UNCHANGED <<chan, produced, dropped>>

\* depth_callback / video_callback dereferencing the user pointer of a
\* FreenectDevice that was dropped: the process aborts, the thread unwinds,
\* or the callback returns
CallbackDangling(th) ==
  /\ th.pc = "cb" /\ ~aborted
  /\ cbKind = "stale"
  /\ \/ /\ aborted' = TRUE
        /\ panic' = "dangling"
        /\ UNCHANGED <<cur, detached, cbKind, cbTs>>
     \/ /\ ThreadEnds(th, "panicked")
        /\ panic' = "dangling"
        /\ cbKind' = "none"
        /\ cbTs' = 0
        /\ UNCHANGED aborted
     \/ /\ ThreadMoves(th, "pump", th.probes)
        /\ cbKind' = "none"
        /\ cbTs' = 0
        /\ UNCHANGED aborted
        /\ NoPanic
  /\ NoReturn
  /\ UNCHANGED <<ctxVars, natVars, devVars, strVars, histVars, appVars>>

\* the memory the native library fills with a frame of kind k and passes to
\* the callback as `data`: its own buffer, the wrapper never gives it another
NativeBuffer(k) == <<"native", k>>

\* a callback that sends a copy of the frame
FrameDataCopied(k, t) == <<"copy", k, t>>

\* the memory the frame sent for timestamp t refers to:
\* `slice::from_raw_parts(data, 640 * 480)`, the native buffer itself
FrameData(k, t) == NativeBuffer(k)

\* a callback that reads the slot without taking its lock
LockFreeAlways(k) == TRUE

\* `depth_sender.lock()` / `video_sender.lock()` in a callback returns: no
\* open of kind k holds the lock
LockFree(k) == ~lockHeld[k]

\* depth_callback / video_callback from the lock to the return
CallbackRun(th) ==
  /\ th.pc = "cb" /\ ~aborted
  /\ cbKind \in Kinds
  /\ LockFree(cbKind)
  /\ LET k == cbKind IN
     IF poisoned[k] THEN CallbackPanics(th, k, "poisoned")
     ELSE IF slot[k] = 0 THEN CallbackPanics(th, k, "slot_empty")
     ELSE IF rx[k] # slot[k] THEN CallbackPanics(th, k, "disconnected")
     ELSE /\ chan' = [chan EXCEPT ![k] = TrySend(@, cbTs)]
          /\ produced' = [produced EXCEPT ![k] = Append(@, cbTs)]
          /\ dropped' = [dropped EXCEPT ![k] = @ \/ Len(chan[k]) >= ChannelCap]
          /\ ThreadMoves(th, "pump", th.probes)
          /\ cbKind' = "none"
          /\ cbTs' = 0
          /\ UNCHANGED <<aborted, poisoned>>
          /\ NoPanic
  /\ NoReturn
  /\ UNCHANGED <<ctxVars, natVars, dev, user, slot, lockHeld, started, streamSt, rx,
                 ts, got, appVars>>

\* ------------------------------------------------------------ Consumer

\* a receive that takes the newest frame
TryRecvNewest(q) ==
  IF q = <<>> THEN [ok |-> FALSE, val |-> 0, rest |-> q]
  ELSE [ok |-> TRUE, val |-> q[Len(q)], rest |-> SubSeq(q, 1, Len(q) - 1)]

\* Receiver::try_recv on a channel holding q: whether a frame is returned,
\* the frame, and the buffer left
TryRecv(q) ==
  IF q = <<>> THEN [ok |-> FALSE, val |-> 0, rest |-> q]
  ELSE [ok |-> TRUE, val |-> Head(q), rest |-> Tail(q)]

\* a channel that also counts as disconnected once no background thread runs
DisconnectedNoThread(k) == slot[k] # rx[k] \/ NumRunning = 0

\* a channel that always reports its sender gone
DisconnectedAlways(k) == TRUE

\* the sender of the Stream's channel is gone
Disconnected(k) == slot[k] # rx[k]

\* stream.receiver.try_recv()
TryReceive(k) ==
  /\ app = "idle" /\ ~aborted
  /\ streamSt[k] = "live"
  /\ LET r == TryRecv(chan[k]) IN
     /\ chan' = [chan EXCEPT ![k] = r.rest]
     /\ IF r.ok
        THEN /\ ret' = "Frame"
             /\ got' = [got EXCEPT ![k] = Append(@, r.val)]
        ELSE /\ ret' = IF Disconnected(k) THEN "Disconnected" ELSE "Empty"
             /\ UNCHANGED got
  /\ UNCHANGED <<ctxVars, natVars, thrVars, devVars, streamSt, rx, ts, produced, dropped,
                 app, appKind, aborted>>
  /\ NoPanic

\* stream.receiver.recv(): returns at once, or parks the application thread
ReceiveBegin(k) ==
  /\ app = "idle" /\ ~aborted
  /\ streamSt[k] = "live"
  /\ LET r == TryRecv(chan[k]) IN
     /\ chan' = [chan EXCEPT ![k] = r.rest]
     /\ IF r.ok
        THEN /\ ret' = "RecvFrame"
             /\ got' = [got EXCEPT ![k] = Append(@, r.val)]
             /\ UNCHANGED <<app, appKind>>
        ELSE IF Disconnected(k)
        THEN /\ ret' = "StreamClosed"
             /\ UNCHANGED <<got, app, appKind>>
        ELSE /\ app' = "recv_wait"
             /\ appKind' = k
             /\ NoReturn
             /\ UNCHANGED got
  /\ UNCHANGED <<ctxVars, natVars, thrVars, devVars, streamSt, rx, ts, produced, dropped, aborted>>
  /\ NoPanic

\* the parked recv() wakes: a frame was enqueued, or the channel disconnected
ReceiveWake ==
  /\ app = "recv_wait" /\ ~aborted
  /\ LET k == appKind
         r == TryRecv(chan[k])
     IN /\ r.ok \/ Disconnected(k)
        /\ chan' = [chan EXCEPT ![k] = r.rest]
        /\ IF r.ok
           THEN /\ ret' = "RecvFrame"
                   /\ got' = [got EXCEPT ![k] = Append(@, r.val)]
           ELSE /\ ret' = "StreamClosed"
                /\ UNCHANGED got
  /\ app' = "idle"
  /\ appKind' = "none"
  /\ UNCHANGED <<ctxVars, natVars, thrVars, devVars, streamSt, rx, ts, produced, dropped, aborted>>
  /\ NoPanic

\* ------------------------------------------------ Tilt and frame modes

\* the angles an application passes to set_tilt_degree
Angles == (0 - MaxAngle)..MaxAngle

\* enum FreenectResolution
Resolutions == {"Low", "Medium", "High"}

\* enum FreenectVideoFormat
VideoFormats == {"Rgb", "Bayer", "IR8", "IR10", "IR10Packed", "YuvRgb", "YuvRaw"}

\* enum FreenectDepthFormat
DepthFormats == {"Bit11", "Bit10", "Bit11Packed", "Bit10Packed", "Registered", "MM"}

\* FreenectResolution::to_c
ResolutionToC(r) ==
  CASE r = "Low" -> "FREENECT_RESOLUTION_LOW"
    [] r = "Medium" -> "FREENECT_RESOLUTION_MEDIUM"
    [] r = "High" -> "FREENECT_RESOLUTION_HIGH"

\* FreenectVideoFormat::to_c
VideoFormatToC(f) ==
  CASE f = "Rgb" -> "FREENECT_VIDEO_RGB"
    [] f = "Bayer" -> "FREENECT_VIDEO_BAYER"
    [] f = "IR8" -> "FREENECT_VIDEO_IR_8BIT"
    [] f = "IR10" -> "FREENECT_VIDEO_IR_10BIT"
    [] f = "IR10Packed" -> "FREENECT_VIDEO_IR_10BIT_PACKED"
    [] f = "YuvRgb" -> "FREENECT_VIDEO_YUV_RGB"
    [] f = "YuvRaw" -> "FREENECT_VIDEO_YUV_RAW"

\* a to_c for depth formats that folds the 10 bit format into the 11 bit one
DepthFormatToCFolded(f) ==
  CASE f = "Bit11" -> "FREENECT_DEPTH_11BIT"
    [] f = "Bit10" -> "FREENECT_DEPTH_11BIT"
    [] f = "Bit11Packed" -> "FREENECT_DEPTH_11BIT_PACKED"
    [] f = "Bit10Packed" -> "FREENECT_DEPTH_10BIT_PACKED"
    [] f = "Registered" -> "FREENECT_DEPTH_REGISTERED"
    [] f = "MM" -> "FREENECT_DEPTH_MM"

\* FreenectDepthFormat::to_c
DepthFormatToC(f) ==
  CASE f = "Bit11" -> "FREENECT_DEPTH_11BIT"
    [] f = "Bit10" -> "FREENECT_DEPTH_10BIT"
    [] f = "Bit11Packed" -> "FREENECT_DEPTH_11BIT_PACKED"
    [] f = "Bit10Packed" -> "FREENECT_DEPTH_10BIT_PACKED"
    [] f = "Registered" -> "FREENECT_DEPTH_REGISTERED"
    [] f = "MM" -> "FREENECT_DEPTH_MM"

\* one native call with its arguments (the device handle left out)
Call(fn, arg) == [fn |-> fn, arg |-> arg]

\* FreenectDevice::set_depth_mode(resol, format): the mode the native lookup
\* returns for the two native constants is handed to freenect_set_depth_mode,
\* whose result ok decides the return value
SetDepthMode(r, f, ok) ==
  /\ app = "idle" /\ ~aborted
  /\ dev = "open"
  /\ LET looked == <<ResolutionToC(r), DepthFormatToC(f)>>
     IN calls' = <<Call("freenect_find_depth_mode", looked),
                   Call("freenect_set_depth_mode", looked)>>
  /\ ret' = IF ok THEN "Ok" ELSE "UnsupportedMode"
  /\ degree' = <<>>
  /\ UNCHANGED <<ctxVars, thrVars, devVars, strVars, histVars, appVars, tilt,
                 tiltState, asked, aborted>>
  /\ NoPanic

\* FreenectDevice::set_video_mode(resol, format)
SetVideoMode(r, f, ok) ==
  /\ app = "idle" /\ ~aborted
  /\ dev = "open"
  /\ LET looked == <<ResolutionToC(r), VideoFormatToC(f)>>
     IN calls' = <<Call("freenect_find_video_mode", looked),
                   Call("freenect_set_video_mode", looked)>>
  /\ ret' = IF ok THEN "Ok" ELSE "UnsupportedMode"
  /\ degree' = <<>>
  /\ UNCHANGED <<ctxVars, thrVars, devVars, strVars, histVars, appVars, tilt,
                 tiltState, asked, aborted>>
  /\ NoPanic

\* FreenectDevice::set_tilt_degree(x): x goes to freenect_set_tilt_degs as it
\* is; the native layer keeps the angle it is given when it reports success
SetTiltDegree(x, ok) ==
  /\ app = "idle" /\ ~aborted
  /\ dev = "open"
  /\ calls' = <<Call("freenect_set_tilt_degs", x)>>
  /\ IF ok
     THEN /\ ret' = "Ok"
          /\ tilt' = x
          /\ asked' = <<x>>
     ELSE /\ ret' = "TiltSetError"
          /\ UNCHANGED <<tilt, asked>>
  /\ degree' = <<>>
  /\ UNCHANGED <<ctxVars, thrVars, devVars, strVars, histVars, appVars,
                 tiltState, aborted>>
  /\ NoPanic

\* a get_tilt_degree that reads the tilt state without refreshing it
TiltStateReadStale(refreshed, old) == old

\* the state freenect_get_tilt_state returns in get_tilt_degree: the one the
\* call of freenect_update_tilt_state before it has refreshed
TiltStateRead(refreshed, old) == refreshed

\* FreenectDevice::get_tilt_degree: freenect_update_tilt_state, succeeding or
\* not, then freenect_get_tilt_state and freenect_get_tilt_degs
GetTiltDegree(ok) ==
  /\ app = "idle" /\ ~aborted
  /\ dev = "open"
  /\ IF ok
     THEN /\ calls' = <<Call("freenect_update_tilt_state", <<>>),
                        Call("freenect_get_tilt_state", <<>>),
                        Call("freenect_get_tilt_degs", <<>>)>>
          /\ tiltState' = TiltStateRead(tilt, tiltState)
          /\ degree' = <<tiltState'>>
          /\ ret' = "Ok"
     ELSE /\ calls' = <<Call("freenect_update_tilt_state", <<>>)>>
          /\ degree' = <<>>
          /\ ret' = "TiltQueryError"
          /\ UNCHANGED tiltState
  /\ UNCHANGED <<ctxVars, thrVars, devVars, strVars, histVars, appVars, tilt,
                 asked, aborted>>
  /\ NoPanic

\* ------------------------------------------------------- Specification

Next ==
  \/ SpawnProcessThread
  \/ StopProcessThread
  \/ JoinReturns
  \/ DropContext
  \/ DropContextJoined
  \/ \E th \in RunningThreads : PollStop(th)
  \/ \E th \in RunningThreads, r \in PumpResults : PumpReturn(th, r)
  \/ \E nr \in 0..MaxDevices, n \in -1..MaxDevices : OpenDevice(nr, n)
  \/ \E ok \in BOOLEAN : NativeOpen(ok)
  \/ DropDevice
  \/ \E k \in Kinds : OpenBegin(k)
  \/ \E ok \in BOOLEAN : OpenStart(ok)
  \/ OpenInstall
  \/ \E k \in Kinds : DropBegin(k)
  \/ DropClear
  \/ DropFields
  \/ \E th \in RunningThreads, k \in Kinds : CallbackBegin(th, k)
  \/ \E th \in RunningThreads : CallbackRun(th)
  \/ \E th \in RunningThreads : CallbackDangling(th)
  \/ \E k \in Kinds : TryReceive(k)
  \/ \E k \in Kinds : ReceiveBegin(k)
  \/ ReceiveWake

Spec == Init /\ [][Next]_vars

\* the steps of the thread spawned last
CurThreadStep ==
  \/ PollStop(CurThread)
  \/ \E r \in PumpResults : PumpReturn(CurThread, r)
  \/ CallbackRun(CurThread)
  \/ CallbackDangling(CurThread)

\* Spec with the scheduling the operating system gives: a background thread
\* that can take a step takes one (every call of freenect_process_events
\* returns)
FairSpec == Spec /\ WF_vars(CurThreadStep)

\* the operations on an open device that touch neither streams nor threads
ControlNext ==
  \/ \E nr \in 0..MaxDevices, n \in -1..MaxDevices : OpenDevice(nr, n)
  \/ \E ok \in BOOLEAN : NativeOpen(ok)
  \/ DropDevice
  \/ \E x \in Angles, ok \in BOOLEAN : SetTiltDegree(x, ok)
  \/ \E ok \in BOOLEAN : GetTiltDegree(ok)
  \/ \E r \in Resolutions, f \in DepthFormats, ok \in BOOLEAN : SetDepthMode(r, f, ok)
  \/ \E r \in Resolutions, f \in VideoFormats, ok \in BOOLEAN : SetVideoMode(r, f, ok)

\* tilt and frame mode of a device, against a native layer that keeps the
\* angle it is given and reports it back
ControlSpec == Init /\ [][ControlNext]_vars

\* ---------------------------------------------------------------- Claims

StrictlyIncreasing(q) == \A i \in 1..(Len(q) - 1) : q[i] < q[i + 1]

Elems(q) == {q[i] : i \in 1..Len(q)}

MaxOf(S) == CHOOSE x \in S : \A y \in S : y <= x

MinOf(S) == CHOOSE x \in S : \A y \in S : x <= y

\* C1: at most one background thread of the Context is running at any time.
C1_AtMostOneThread == NumRunning <= 1

\* C2: spawn_process_thread called while the thread spawned before is still
\* active (its stop channel accepts the probe) returns AlreadyRunning, starts
\* no thread and leaves the stored sender and join handle as they were.
C2_SpawnWhileActiveFails ==
  [][(SpawnProcessThread /\ drop_sender /\ ProbeOk)
       => /\ ret' = "AlreadyRunning"
          /\ UNCHANGED <<drop_sender, thread_joiner, cur, detached>>]_vars

\* C3: an open of kind k (video: on a Context with video support) made while
\* a Stream of kind k is live returns StreamAlreadyOpen; made while none is
\* live (never opened, or torn down) it goes on to the native start call,
\* and with that call succeeding it returns the Stream.
C3_OpenExclusive ==
  [][/\ \A k \in Kinds :
          (OpenBegin(k) /\ (k = "video" => use_video))
            => IF streamSt[k] = "live"
               THEN ret' = "StreamAlreadyOpen" /\ app' = "idle" /\ ~aborted'
               ELSE app' = "open_locked" /\ ~aborted'
     /\ OpenStart(TRUE) => app' = "open_started"
     /\ OpenInstall => ret' = "Ok" /\ streamSt'[appKind] = "live"]_vars

\* C4: whenever the slot lock of kind k is free, the slot of kind k holds a
\* sender exactly if a live Stream of kind k exists.
C4_SlotIffLiveStream ==
  \A k \in Kinds : ~lockHeld[k] => (slot[k] # 0 <=> StreamLive(k))

\* a Stream is live, the lock free, and a callback of its kind was invoked
\* that did not belong to it: an earlier Stream of the kind was torn down
C4_Witness ==
  \E k \in Kinds : /\ ~lockHeld[k] /\ slot[k] # 0 /\ streamSt[k] = "live"
                   /\ ~aborted /\ cbKind = "none"
                   /\ ts[k] > Len(produced[k])

\* C5: a callback that finds its slot empty (the slot mutex not poisoned)
\* sends nothing and does not fail or panic: its thread goes on pumping.
C5_EmptySlotCallbackNoOp ==
  [][\A th \in RunningThreads :
       (CallbackRun(th) /\ slot[cbKind] = 0 /\ ~poisoned[cbKind])
         => /\ panic' = "none"
            /\ ~aborted'
            /\ chan' = chan
            /\ NumRunning' = NumRunning]_vars

\* C6: a sender in a slot always has its receiver alive, and no callback
\* ever met a disconnected channel.
C6_NeverDisconnected ==
  /\ \A k \in Kinds : slot[k] # 0 => rx[k] = slot[k]
  /\ panic # "disconnected"

\* a callback has sent a frame on the channel of a Stream that was opened
\* after the teardown of an earlier Stream of the same kind
C6_Witness ==
  \E k \in Kinds : /\ slot[k] # 0 /\ chan[k] # <<>> /\ cbKind = "none"
                   /\ ~aborted
                   /\ ts[k] > Len(produced[k]) /\ produced[k] # <<>>

\* C7: a channel never buffers more than 2 frames.
C7_AtMostTwoBuffered == \A k \in Kinds : Len(chan[k]) <= ChannelCap

\* the channel is full and a frame met it full
C7_Witness == \E k \in Kinds : Len(chan[k]) = ChannelCap /\ dropped[k]

\* C8: a callback that holds a sender never waits for the consumer: it can
\* run whenever the slot lock is free; on a full channel it returns leaving
\* the channel as it was, otherwise it appends its (buffer, timestamp).
C8_CallbackNeverWaits ==
  [][\A th \in RunningThreads :
       /\ (th.pc = "cb" /\ cbKind \in Kinds /\ ~lockHeld[cbKind] /\ ~aborted)
            => ENABLED CallbackRun(th)
       /\ (CallbackRun(th) /\ slot[cbKind] # 0 /\ ~poisoned[cbKind])
            => /\ chan'[cbKind] = IF Len(chan[cbKind]) >= ChannelCap
                                  THEN chan[cbKind]
                                  ELSE Append(chan[cbKind], cbTs)
               /\ panic' = "none" /\ ~aborted'
               /\ NumRunning' = NumRunning
               /\ cbKind' = "none"]_vars

\* a callback has returned after meeting the full channel, and the consumer
\* has since taken a frame
C8_Witness ==
  \E k \in Kinds : dropped[k] /\ cbKind = "none" /\ got[k] # <<>>
                   /\ Len(produced[k]) > Len(got[k]) + Len(chan[k])

\* C9: with the callbacks of a stream invoked with strictly increasing
\* timestamps, the timestamps received are strictly increasing and all were
\* produced; if no callback met a full channel, the frames received followed
\* by the frames buffered are exactly the frames produced.
C9_FifoDelivery ==
  \A k \in Kinds :
    StrictlyIncreasing(produced[k])
      => /\ StrictlyIncreasing(got[k])
         /\ Elems(got[k]) \subseteq Elems(produced[k])
         /\ StrictlyIncreasing(got[k] \o chan[k])
         /\ ~dropped[k] => got[k] \o chan[k] = produced[k]

\* two frames were received from a stream that lost a frame
C9_Witness == \E k \in Kinds : Len(got[k]) >= 2 /\ dropped[k]

\* C10 as claimed: try_receive returns the buffered frame with the greatest
\* timestamp, or "no frame available" when nothing is buffered.
C10_TryReceiveNewest ==
  [][\A k \in Kinds :
       TryReceive(k)
         => /\ app' = "idle"
            /\ IF chan[k] = <<>>
               THEN ret' = "Empty" /\ got' = got
               ELSE /\ ret' = "Frame"
                    /\ got'[k] = Append(got[k], MaxOf(Elems(chan[k])))]_vars

\* C10 amended: try_receive returns the buffered frame with the least
\* timestamp (the oldest) and leaves the others buffered, or "no frame
\* available" when nothing is buffered; it completes in one step.
C10_TryReceiveOldest ==
  [][\A k \in Kinds :
       TryReceive(k)
         => /\ app' = "idle"
            /\ IF chan[k] = <<>>
               THEN ret' = "Empty" /\ got' = got /\ chan' = chan
               ELSE /\ ret' = "Frame"
                    /\ got'[k] = Append(got[k], MinOf(Elems(chan[k])))
                    /\ Elems(chan'[k]) = Elems(chan[k]) \ {MinOf(Elems(chan[k]))}]_vars

\* try_receive returned the older of two buffered frames
C10_Witness ==
  \E k \in Kinds : ret = "Frame" /\ got[k] # <<>> /\ chan[k] # <<>>
                   /\ got[k][Len(got[k])] < Head(chan[k])

\* C11: the blocking receive returns the oldest buffered frame when one is
\* buffered; on an empty channel it returns StreamClosed if the channel is
\* disconnected and otherwise suspends the caller; a suspended caller stays
\* suspended while the channel is empty and connected, can resume as soon as
\* a frame is buffered or the channel is disconnected, and resumes with the
\* frame, or with StreamClosed on the disconnected empty channel.
C11_BlockingReceive ==
  [][/\ \A k \in Kinds :
          ReceiveBegin(k)
            => IF chan[k] # <<>>
               THEN /\ ret' = "RecvFrame" /\ app' = "idle"
                    /\ got'[k] = Append(got[k], Head(chan[k]))
               ELSE IF slot[k] # rx[k]
               THEN ret' = "StreamClosed" /\ app' = "idle"
               ELSE ret' = "none" /\ app' = "recv_wait" /\ appKind' = k
     /\ (app = "recv_wait" /\ ~aborted)
          => /\ (chan[appKind] # <<>> \/ slot[appKind] # rx[appKind]) => ENABLED ReceiveWake
             /\ app' # "recv_wait"
                  => IF chan[appKind] # <<>>
                     THEN /\ ret' = "RecvFrame"
                          /\ got'[appKind] = Append(got[appKind], Head(chan[appKind]))
                     ELSE ret' = "StreamClosed" /\ slot[appKind] # rx[appKind]]_vars

\* the caller is suspended in the blocking receive and a frame has been
\* enqueued for it
C11_Witness == app = "recv_wait" /\ chan[appKind] # <<>> /\ ~aborted

\* C12: stop_process_thread on a Context holding no join handle (no thread
\* was started, or a stop already took the handle) returns success in that
\* very step and leaves the Context without sender and without join handle,
\* and the threads as they were.
C12_StopIdempotent ==
  [][(StopProcessThread /\ ~thread_joiner)
       => /\ ret' = "OkNoThread" /\ app' = "idle"
          /\ ~drop_sender' /\ ~thread_joiner'
          /\ UNCHANGED <<drop_sender, thread_joiner, cur, detached>>]_vars

\* stop_process_thread returned from its no-thread branch on a Context whose
\* thread had run callbacks: an earlier stop took the join handle
C12_Witness ==
  /\ ret = "OkNoThread" /\ ~drop_sender /\ ~thread_joiner
  /\ ts["depth"] + ts["video"] > 0

\* C13: when stop_process_thread returns (from the join or from its
\* no-thread branch), no background thread of the Context is running.
C13_StopLeavesNoThread ==
  [][(JoinReturns \/ (StopProcessThread /\ ~thread_joiner)) => NumRunning' = 0]_vars

\* C14: once the native context handle is released, no background thread is
\* inside freenect_process_events on it.
C14_NoPumpAfterShutdown ==
  ctx = "released" => \A th \in RunningThreads : th.pc \notin {"pump", "cb"}

\* C15: a thread whose freenect_process_events call returns the interrupted
\* result goes back to polling its stop channel instead of exiting.
C15_InterruptedSwallowed ==
  [][\A th \in RunningThreads :
       PumpReturn(th, "interrupted") => ThreadMoves(th, "poll", th.probes)]_vars

C17_VideoUnsupported ==
  /\ [][OpenBegin("video")
          => /\ (ret' = "VideoUnsupported") <=> ~use_video
             /\ ~use_video => /\ app' = "idle" /\ appKind' = "none"
                              /\ slot' = slot /\ started' = started
                              /\ lockHeld' = lockHeld]_vars
  /\ [](~use_video => /\ slot["video"] = 0 /\ ~started["video"]
                      /\ ~(app \in {"open_locked", "open_started"} /\ appKind = "video"))

\* video_stream was refused on a Context without video capability
C17_Witness == ret = "VideoUnsupported" /\ ~use_video /\ dev = "open"

\* C18: open_device(nr) on an enumeration that failed returns the query
\* error, and on one that returned n <= nr returns DeviceNotFound, both
\* without reaching the native open call; for 0 <= nr < n it goes on to the
\* native open call, which is made once and yields the Device when it
\* succeeds and DriverOpenError when it fails.
C18_OpenDevice ==
  [][/\ \A nr \in 0..MaxDevices, n \in -1..MaxDevices :
          OpenDevice(nr, n)
            => IF n < 0 THEN ret' = "DriverQueryError" /\ app' = "idle" /\ dev' = "none"
               ELSE IF nr >= n THEN ret' = "DeviceNotFound" /\ app' = "idle" /\ dev' = "none"
               ELSE ret' = "none" /\ app' = "dev_opening" /\ dev' = "none"
     /\ \A ok \in BOOLEAN :
          NativeOpen(ok)
            => /\ app = "dev_opening" /\ app' = "idle"
               /\ IF ok THEN ret' = "Ok" /\ dev' = "open"
                  ELSE ret' = "DriverOpenError" /\ dev' = "none"
     /\ dev' # dev /\ dev' = "open" => NativeOpen(TRUE)]_vars

\* open_device was refused for an index that is not below the device count
C18_Witness == ret = "DeviceNotFound" /\ dev = "none" /\ app = "idle"

\* C19: a Stream goes once through its teardown: the native stop call is made
\* on the live, started stream and leaves the slot alone; the slot is cleared
\* next, on the stopped stream; then the fields go.  Native streaming of a
\* kind is switched on only by a successful start call made while it is off
\* and switched off only by the stop call of a teardown.
C19_TeardownOrder ==
  [][/\ \A k \in Kinds :
          /\ DropBegin(k) => /\ streamSt[k] = "live" /\ started[k] /\ ~started'[k]
                             /\ slot' = slot
          /\ (slot[k] # 0 /\ slot'[k] = 0) => DropClear /\ appKind = k /\ ~started[k]
          /\ started'[k] # started[k]
               => IF started'[k] THEN OpenStart(TRUE) /\ appKind = k ELSE DropBegin(k)
          /\ streamSt'[k] # streamSt[k]
               => <<streamSt[k], streamSt'[k]>> \in
                    {<<"none", "live">>, <<"live", "stopping">>,
                     <<"stopping", "cleared">>, <<"cleared", "none">>}
     /\ DropClear => /\ streamSt[appKind] = "stopping"
                     /\ ~poisoned[appKind] => slot'[appKind] = 0
     /\ OpenStart(TRUE) => ~started[appKind]]_vars

\* a teardown has just completed for a Stream of a kind whose callback had
\* been invoked
C19_Witness ==
  /\ ret = "Dropped" /\ dev = "open"
  /\ \E k \in Kinds : ts[k] > 0 /\ ~started[k] /\ slot[k] = 0 /\ streamSt[k] = "none"

\* C20: the Device is released only with both slots empty and no Stream, and
\* the native context handle is released only when no Device is open.
C20_ReleaseOrder ==
  [][/\ DropDevice => \A k \in Kinds : slot[k] = 0 /\ streamSt[k] = "none" /\ ~started[k]
     /\ (ctx = "live" /\ ctx' = "released") => dev = "none"]_vars

\* the context handle was released after a Device with a Stream that had
\* received callbacks
C20_Witness == ctx = "released" /\ ts["depth"] + ts["video"] > 0 /\ dev = "none"

\* C21: the slot of a kind is read and written under its lock only.  It
\* changes in two steps only: the installation that ends an open, which has
\* held the lock since its emptiness test and still finds the slot empty
\* (so no second open of the kind can have succeeded in between), and the
\* store of None by the teardown.  A callback reads the slot only when no
\* open holds the lock, and the channel it sends on is the one in the slot
\* at that moment, never one that the teardown has removed.
C21_SlotUnderLock ==
  /\ [](app \in {"open_locked", "open_started"}
          => lockHeld[appKind] /\ slot[appKind] = 0)
  /\ [][\A k \in Kinds :
          slot'[k] # slot[k]
            => \/ OpenInstall /\ appKind = k /\ lockHeld[k] /\ slot[k] = 0
                   /\ ~lockHeld'[k]
               \/ DropClear /\ appKind = k /\ ~lockHeld[k] /\ slot'[k] = 0]_vars
  /\ [][\A th \in RunningThreads :
          CallbackRun(th)
            => /\ ~lockHeld[cbKind]
               /\ chan' # chan \/ produced' # produced
                    => slot[cbKind] # 0 /\ slot[cbKind] = rx[cbKind]]_vars

\* a callback left in flight by an earlier Stream waits for the lock while a
\* new open of its kind has taken it for the emptiness test
C21_Witness ==
  /\ app = "open_locked"
  /\ cbKind = appKind
  /\ lockHeld[appKind]

\* C22: against a native layer that keeps the angle it is given and reports
\* it back, set_tilt_degree(x) hands x itself to the native tilt call,
\* whatever x is (the largest angles tried included), and a get_tilt_degree
\* that succeeds refreshes the tilt state first and returns the angle of the
\* last set_tilt_degree that succeeded.
C22_TiltRoundTrip ==
  /\ [](degree # <<>> /\ asked # <<>> => degree = asked)
  /\ [][\A x \in Angles, ok \in BOOLEAN :
          SetTiltDegree(x, ok)
            => /\ calls' = <<Call("freenect_set_tilt_degs", x)>>
               /\ ok => tilt' = x /\ ret' = "Ok"]_vars
  /\ [][GetTiltDegree(TRUE)
          => /\ calls'[1].fn = "freenect_update_tilt_state"
             /\ calls'[2].fn = "freenect_get_tilt_state"
             /\ degree' = <<tilt>>
             /\ ret' = "Ok"]_vars

\* the largest angle tried was set and is read back
C22_Witness ==
  /\ ret = "Ok"
  /\ asked = <<MaxAngle>>
  /\ degree = <<MaxAngle>>
  /\ Len(calls) = 3

\* C23: set_depth_mode(r, f) and set_video_mode(r, f) call the native mode
\* lookup with the native constants that carry the names of r and f (no two
\* resolutions and no two formats share a constant), hand the mode found to
\* the native apply call exactly once, and return success when that call
\* succeeds and UnsupportedMode when it fails.
C23_ModeMapping ==
  /\ \A r1, r2 \in Resolutions : ResolutionToC(r1) = ResolutionToC(r2) => r1 = r2
  /\ \A f1, f2 \in DepthFormats : DepthFormatToC(f1) = DepthFormatToC(f2) => f1 = f2
  /\ \A f1, f2 \in VideoFormats : VideoFormatToC(f1) = VideoFormatToC(f2) => f1 = f2
  /\ [][LET res == {<<"Low", "FREENECT_RESOLUTION_LOW">>,
                    <<"Medium", "FREENECT_RESOLUTION_MEDIUM">>,
                    <<"High", "FREENECT_RESOLUTION_HIGH">>}
            dep == {<<"Bit11", "FREENECT_DEPTH_11BIT">>,
                    <<"Bit10", "FREENECT_DEPTH_10BIT">>,
                    <<"Bit11Packed", "FREENECT_DEPTH_11BIT_PACKED">>,
                    <<"Bit10Packed", "FREENECT_DEPTH_10BIT_PACKED">>,
                    <<"Registered", "FREENECT_DEPTH_REGISTERED">>,
                    <<"MM", "FREENECT_DEPTH_MM">>}
            vid == {<<"Rgb", "FREENECT_VIDEO_RGB">>,
                    <<"Bayer", "FREENECT_VIDEO_BAYER">>,
                    <<"IR8", "FREENECT_VIDEO_IR_8BIT">>,
                    <<"IR10", "FREENECT_VIDEO_IR_10BIT">>,
                    <<"IR10Packed", "FREENECT_VIDEO_IR_10BIT_PACKED">>,
                    <<"YuvRgb", "FREENECT_VIDEO_YUV_RGB">>,
                    <<"YuvRaw", "FREENECT_VIDEO_YUV_RAW">>}
            Applied(find, set, r, f, fmts, ok) ==
              /\ Len(calls') = 2
              /\ calls'[1].fn = find
              /\ <<r, calls'[1].arg[1]>> \in res
              /\ <<f, calls'[1].arg[2]>> \in fmts
              /\ calls'[2] = Call(set, calls'[1].arg)
              /\ ret' = IF ok THEN "Ok" ELSE "UnsupportedMode"
        IN /\ \A r \in Resolutions, f \in DepthFormats, ok \in BOOLEAN :
                SetDepthMode(r, f, ok)
                  => Applied("freenect_find_depth_mode",
                             "freenect_set_depth_mode", r, f, dep, ok)
           /\ \A r \in Resolutions, f \in VideoFormats, ok \in BOOLEAN :
                SetVideoMode(r, f, ok)
                  => Applied("freenect_find_video_mode",
                             "freenect_set_video_mode", r, f, vid, ok)]_vars

\* the native layer refused the 10 bit depth format at the high resolution
C23_Witness ==
  /\ ret = "UnsupportedMode"
  /\ calls = <<Call("freenect_find_depth_mode",
                    <<"FREENECT_RESOLUTION_HIGH", "FREENECT_DEPTH_10BIT">>),
               Call("freenect_set_depth_mode",
                    <<"FREENECT_RESOLUTION_HIGH", "FREENECT_DEPTH_10BIT">>)>>

C25_FatalPumpExits ==
  /\ [](cur = "exited" /\ app = "idle" /\ ctx = "live" => thread_joiner)
  /\ [][\A th \in RunningThreads :
          PumpReturn(th, "error")
            => /\ NumRunning' = NumRunning - 1
               /\ th.cur => cur' = "exited"]_vars
  /\ [][cur = "exited"
          => /\ cur' \in {"exited", "none"}
             /\ StopProcessThread => app' = "joining"
             /\ JoinReturns => ret' = "Ok" /\ cur' = "none"]_vars

\* the thread spawned last has exited by itself: its stop sender is still in
\* the Context, which no stop has been asked to clear
C25_Witness ==
  /\ cur = "exited"
  /\ drop_sender
  /\ thread_joiner
  /\ app = "idle"

\* C26: spawn_process_thread returns AlreadyRunning only while the thread
\* spawned last is running; called after that thread has exited by itself
\* it succeeds and starts a new thread.
C26_AlreadyRunningOnlyWhenRunning ==
  [][SpawnProcessThread
       => /\ ret' = "AlreadyRunning" => cur \in RunningPc
          /\ cur = "exited" => ret' = "Ok" /\ cur' = "poll"]_vars

\* C27: the Context is restartable.  A stop_process_thread that has joined
\* the thread leaves neither thread nor stop sender nor join handle, and a
\* spawn_process_thread called when no thread exists succeeds and leaves
\* exactly one thread running, with its sender and handle stored; this holds
\* for every cycle, as long as no spawn on a running thread (C1) has left a
\* second thread behind.
C27_Restartable ==
  /\ [][JoinReturns /\ detached = EmptyBag
          => NumRunning' = 0 /\ ~drop_sender' /\ ~thread_joiner']_vars
  /\ [][SpawnProcessThread /\ cur = "none" /\ detached = EmptyBag
          => /\ ret' = "Ok"
             /\ cur' = "poll"
             /\ NumRunning' = 1
             /\ drop_sender' /\ thread_joiner']_vars

\* a spawn has just succeeded (no other operation returns Ok without a
\* Device while a thread polls) after an earlier thread, which has run
\* callbacks, was stopped
C27_Witness ==
  /\ ret = "Ok"
  /\ cur = "poll"
  /\ dev = "none"
  /\ app = "idle"
  /\ detached = EmptyBag
  /\ ts["depth"] + ts["video"] > 0

\* C28: a callback that fires after the native start of an open has
\* succeeded never finds the slot empty.  From the start to the installation
\* the open holds the slot lock, on a slot that is still empty, and a
\* callback of the kind does not run; whenever streaming is on and the lock
\* is free the slot holds a sender, so a callback that runs while streaming
\* is on raises no panic and hands its frame to try_send.
C28_CallbackDuringOpenFindsSender ==
  /\ [](app = "open_started"
          => lockHeld[appKind] /\ started[appKind] /\ slot[appKind] = 0)
  /\ [](\A k \in Kinds : started[k] /\ ~lockHeld[k] => slot[k] # 0)
  /\ [][\A th \in RunningThreads :
          CallbackRun(th)
            => /\ ~lockHeld[cbKind]
               /\ started[cbKind]
                    => /\ panic' = "none"
                       /\ produced'[cbKind] = Append(produced[cbKind], cbTs)]_vars

\* the native start has succeeded, the open has not returned, and the first
\* callback of the kind is in flight, waiting for the slot lock
C28_Witness ==
  /\ app = "open_started"
  /\ cbKind = appKind
  /\ cbTs = 1
  /\ slot[appKind] = 0

\* C29: an open whose native start fails returns StreamStartError, creates
\* no channel and no Stream, leaves the slot empty and releases the slot
\* lock; since StreamAlreadyOpen is returned only for a slot that holds the
\* sender of a live Stream, a later open of the kind is not rejected with it.
C29_StartFailureLeavesSlotEmpty ==
  /\ [][OpenStart(FALSE)
          => /\ ret' = "StreamStartError"
             /\ slot[appKind] = 0
             /\ UNCHANGED <<slot, rx, chan, streamSt, started>>
             /\ ~started[appKind]
             /\ ~lockHeld'[appKind]
             /\ app' = "idle"]_vars
  /\ [][\A k \in Kinds :
          OpenBegin(k) /\ ret' = "StreamAlreadyOpen"
            => slot[k] # 0 /\ streamSt[k] = "live"]_vars

\* an open has just failed in the native start
C29_Witness ==
  /\ ret = "StreamStartError"
  /\ app = "idle"
  /\ \E k \in Kinds : slot[k] = 0 /\ ~lockHeld[k] /\ streamSt[k] = "none"

\* C30: an open of a kind whose slot holds a sender is rejected with
\* StreamAlreadyOpen and changes nothing of the live Stream: no native start
\* or stop (streaming stays on), the same sender in the slot, the same
\* frames in the channel, the lock free; callbacks and threads are where
\* they were, so the Stream goes on receiving the frames that follow.
C30_RejectedOpenHasNoEffect ==
  [][\A k \in Kinds :
       OpenBegin(k) /\ slot[k] # 0
         => /\ ret' = "StreamAlreadyOpen"
            /\ panic' = "none"
            /\ UNCHANGED <<slot, rx, chan, started, streamSt, lockHeld, poisoned>>
            /\ UNCHANGED <<thrVars, histVars, app>>
            /\ started'[k] /\ streamSt'[k] = "live"
            /\ slot'[k] = rx'[k] /\ ~lockHeld'[k] /\ ~poisoned'[k]]_vars

\* an open was rejected while the live Stream of a kind has a frame buffered
C30_Witness ==
  /\ ret = "StreamAlreadyOpen"
  /\ app = "idle"
  /\ \E k \in Kinds : streamSt[k] = "live" /\ chan[k] # <<>>

\* C31: the two kinds of one Device are independent.  A step of an open, a
\* teardown, a receive or a callback of one kind leaves the slot, the
\* receiver and the buffered frames of the other kind as they are, and a
\* callback whose own channel has room enqueues its frame however full the
\* channel of the other kind is.
C31_KindsIndependent ==
  [][\A k \in Kinds :
       LET o == CHOOSE j \in Kinds : j # k
           OfKind ==
             \/ OpenBegin(k) \/ DropBegin(k) \/ TryReceive(k) \/ ReceiveBegin(k)
             \/ /\ appKind = k
                /\ \/ OpenStart(TRUE) \/ OpenStart(FALSE) \/ OpenInstall
                   \/ DropClear \/ DropFields \/ ReceiveWake
             \/ cbKind = k /\ \E th \in RunningThreads : CallbackRun(th)
       IN /\ \/ slot'[o] = slot[o] /\ rx'[o] = rx[o] /\ chan'[o] = chan[o]
             \/ ~OfKind
          /\ \A th \in RunningThreads :
               /\ cbKind = k /\ th.pc = "cb"
               /\ slot[k] # 0 /\ slot[k] = rx[k] /\ ~poisoned[k]
               /\ Len(chan[k]) < ChannelCap
               /\ CallbackRun(th)
               => chan'[k] = Append(chan[k], cbTs)]_vars

\* the channel of one kind is full and a frame of the other kind is buffered
\* in its own channel
C31_Witness ==
  \E k, o \in Kinds :
    /\ k # o
    /\ streamSt[k] = "live" /\ streamSt[o] = "live"
    /\ Len(chan[k]) = ChannelCap
    /\ chan[o] # <<>>

\* C32: the channel of a live Stream stays connected whatever the background
\* threads do.  The steps of a thread and of stop_process_thread leave the
\* slots, the receivers and the Streams as they are, and the slot of a live
\* Stream holds the sender of its channel.  A blocking receive parked on an
\* empty channel when no background thread is left stays parked: nothing
\* enqueues a frame and nothing drops the sender.
C32_LiveStreamStaysConnected ==
  /\ [](\A k \in Kinds : streamSt[k] = "live" => slot[k] # 0 /\ slot[k] = rx[k])
  /\ [][(\/ StopProcessThread \/ JoinReturns
         \/ \E th \in RunningThreads :
              \/ PollStop(th)
              \/ \E r \in PumpResults : PumpReturn(th, r))
          => UNCHANGED <<slot, rx, streamSt, chan>>]_vars
  /\ [][(app = "recv_wait" /\ NumRunning = 0 /\ chan[appKind] = <<>>)
          => /\ app' = "recv_wait" /\ appKind' = appKind
             /\ NumRunning' = 0
             /\ chan'[appKind] = <<>>
             /\ ret' = ret]_vars

\* the application is parked in a blocking receive on the empty channel of a
\* live Stream and the only background thread has exited by itself
C32_Witness ==
  /\ app = "recv_wait"
  /\ streamSt[appKind] = "live"
  /\ chan[appKind] = <<>>
  /\ cur = "exited"
  /\ detached = EmptyBag

\* C33: the locks cannot deadlock.  A slot lock is held from one step to the
\* next only by an open in progress, which can always take its next step.  An
\* application operation that is under way (an open, a teardown, a device
\* open, a stop or a Context drop waiting in the join) can take its next step
\* or a background thread can take one.  Every running background thread can
\* take a step, unless it is in a callback waiting for the slot lock of an
\* open that is under way.  (A recv() parked on an empty channel waits for a
\* frame, not for a lock; it is C32's case.)
C33_NoDeadlock ==
  LET AppStep ==
        \/ JoinReturns \/ DropContextJoined
        \/ \E ok \in BOOLEAN : NativeOpen(ok)
        \/ \E ok \in BOOLEAN : OpenStart(ok)
        \/ OpenInstall \/ DropClear \/ DropFields
      ThreadStep(th) ==
        \/ PollStop(th)
        \/ \E r \in PumpResults : PumpReturn(th, r)
        \/ CallbackRun(th)
        \/ CallbackDangling(th)
      InOpen(k) == app \in {"open_locked", "open_started"} /\ appKind = k
  IN ~aborted
       => /\ \A k \in Kinds : lockHeld[k] => InOpen(k) /\ ENABLED AppStep
          /\ app \notin {"idle", "recv_wait"}
               => \/ ENABLED AppStep
                  \/ \E th \in RunningThreads : ENABLED ThreadStep(th)
          /\ \A th \in RunningThreads :
               \/ ENABLED ThreadStep(th)
               \/ /\ th.pc = "cb" /\ cbKind \in Kinds
                  /\ InOpen(cbKind) /\ ENABLED AppStep

\* stop_process_thread waits in the join, holding the Context lock, while
\* the thread it joins is inside a callback that is about to take a slot lock
C33_Witness ==
  /\ app = "joining"
  /\ cur = "cb"
  /\ cbKind \in Kinds
  /\ ~aborted

====
